---- MODULE Spec2Model ----
(***************************************************************************)
(* The games/reviews one-to-many model of one_to_many/app/db.py, driven by *)
(* the session calls of testing/game_test.py and testing/review_test.py:   *)
(* Game(...), Review(...), session.add, session.bulk_save_objects,         *)
(* session.commit, and the attribute reads game.game_id, game.reviews and  *)
(* review.game.  The storage is the SQLite file named by create_engine.    *)
(***************************************************************************)
EXTENDS Integers, Sequences, FiniteSets, TLC

\* ------------------------------------------------------------------ bounds
MaxCalls == 10      \* constructor, session and attribute calls in one run
MaxSeedings == 4    \* executions of the test classes' bodies on one file

\* Python None, stored as SQL NULL: the value of an unset Integer column.
None == 0

\* The Game and Review objects the test classes bind.
GameObjs == {"mario_kart", "skyrim"}

ReviewObjs == {"mk_review_1", "mk_review_2", "skyrim_review"}

\* The field values the tests construct the Game objects with.
MarioKart == [title |-> "Mario Kart", platform |-> "Switch", genre |-> "Racing", price |-> 60]

Skyrim == [title |-> "The Elder Scrolls V: Skyrim", platform |-> "PC", genre |-> "Adventure", price |-> 20]

GameFixture(g) == IF g = "mario_kart" THEN MarioKart ELSE Skyrim

\* The field values the tests construct the Review objects with.
Wow == [score |-> 10, comment |-> "Wow, what a game"]

Classic == [score |-> 8, comment |-> "A classic"]

ReviewFixture(r) == IF r = "mk_review_2" THEN Classic ELSE Wow

\* The order in which the program text binds them.
GameOrder == <<"mario_kart", "skyrim">>

ReviewOrder == <<"mk_review_1", "mk_review_2", "skyrim_review">>

\* A game_id passed to Review(...) as a literal that no Game of the run is
\* given as its key.
UnknownGameId == Cardinality(GameObjs) + 1

VARIABLES
  games,      \* table games as the open transaction sees it: a set of rows
  reviews,    \* table reviews as the open transaction sees it
  file,       \* the committed contents of one_to_many.db
  gobj,       \* the Game objects of the program, by slot
  robj,       \* the Review objects of the program, by slot
  collCache,  \* loaded Game.reviews collections: game key -> sequence of review keys
  gameCache,  \* loaded Review.game references: review key -> game key or None
  error,      \* the exception that left the session, "none" when there is none
  nbulk,      \* number of bulk_save_objects calls so far
  calls,      \* number of calls made so far
  pc,         \* the statement of a test class body that runs next
  run,        \* number of test class bodies started on this file
  latest      \* per test class, the number of its latest completed body

vars ==
  <<games, reviews, file, gobj, robj, collCache, gameCache, error, nbulk, calls,
    pc, run, latest>>

\* ------------------------------------------------------------- the schema
\* An object whose class attribute was never bound.
NoFields == [title |-> "", platform |-> "", genre |-> "", price |-> 0]

AbsentGame ==
  [st |-> "absent", key |-> None, ord |-> 0, ctor |-> NoFields, attrs |-> <<>>]

AbsentReview ==
  [st |-> "absent", key |-> None, ord |-> 0, score |-> 0, comment |-> "", game_id |-> None]

\* class Game: the mapped columns of a games row (obj, run: which object and
\* which class body wrote the row, kept for the properties).
GameRowColumnsSwapped(id, g, k) ==
  [id |-> id, title |-> g.attrs[1].platform, platform |-> g.attrs[1].title,
   genre |-> g.attrs[1].genre, price |-> g.attrs[1].price, obj |-> k, run |-> run]

GameRow(id, g, k) ==
  [id |-> id, title |-> g.attrs[1].title, platform |-> g.attrs[1].platform,
   genre |-> g.attrs[1].genre, price |-> g.attrs[1].price, obj |-> k, run |-> run]

\* The column values of a games row, as a refresh reads them back.
GameFields(row) ==
  [title |-> row.title, platform |-> row.platform, genre |-> row.genre, price |-> row.price]

\* class Review: the mapped columns of a reviews row (seq: the INSERT's
\* number; batch, pos, blen: the bulk call, the place in its list and the
\* list's length, 0 for session.add; ref: what game_id referred to when the
\* row was inserted).
ReviewRow(id, r, k, seq, batch, pos, blen, ref) ==
  [id |-> id, score |-> r.score, comment |-> r.comment, game_id |-> r.game_id,
   obj |-> k, seq |-> seq, batch |-> batch, pos |-> pos, blen |-> blen,
   ref |-> ref, run |-> run]

Max(S) == CHOOSE x \in S : \A y \in S : y <= x

Min(S) == CHOOSE x \in S : \A y \in S : x <= y

\* An INTEGER PRIMARY KEY left unset on INSERT: SQLite gives the row one more
\* than the largest key of the table.
NextIdReusesLargest(rows) == IF rows = {} THEN 1 ELSE Max({r.id : r \in rows})

NextId(rows) == IF rows = {} THEN 1 ELSE Max({r.id : r \in rows}) + 1

HasId(rows, id) == \E r \in rows : r.id = id

RowById(rows, id) == CHOOSE r \in rows : r.id = id

\* create_engine('sqlite:///one_to_many.db') with nothing that issues
\* PRAGMA foreign_keys=ON: SQLite parses the FOREIGN KEY clause and does not
\* enforce it.
ForeignKeysEnforced == FALSE

\* What a review's game_id refers to when its row is inserted.
RefOf(gid, gameRows) ==
  IF gid = None THEN "null"
  ELSE IF HasId(file.games, gid) THEN "committed"
  ELSE IF HasId(gameRows, gid) THEN "flushed"
  ELSE "dangling"

\* ForeignKey('games.game_id') on Review.game_id: the INSERT SQLite refuses.
FkViolation(gid, gameRows) ==
  ForeignKeysEnforced /\ RefOf(gid, gameRows) = "dangling"

\* --------------------------------------------------------- the unit of work
RECURSIVE SortedSeq(_)
SortedSeq(S) ==
  IF S = {} THEN <<>> ELSE LET m == Min(S) IN <<m>> \o SortedSeq(S \ {m})

Range(s) == {s[i] : i \in 1..Len(s)}

PendingGames == {k \in GameObjs : gobj[k].st = "pending"}

PendingReviews == {k \in ReviewObjs : robj[k].st = "pending"}

\* The pending objects of one class in the order of their session.add calls.
RECURSIVE InAddOrder(_, _)
InAddOrder(S, objs) ==
  IF S = {} THEN <<>>
  ELSE LET k == CHOOSE x \in S : \A y \in S : objs[x].ord <= objs[y].ord
       IN <<k>> \o InAddOrder(S \ {k}, objs)

NextOrd ==
  1 + Max({0} \cup {gobj[k].ord : k \in GameObjs} \cup {robj[k].ord : k \in ReviewObjs})

\* INSERT INTO games, one row per pending Game; keys[i] is the key given to order[i].
RECURSIVE InsertGames(_, _)
InsertGames(rows, order) ==
  IF order = <<>> THEN [rows |-> rows, keys |-> <<>>]
  ELSE LET k == Head(order)
           id == NextId(rows)
           rest == InsertGames(rows \cup {GameRow(id, gobj[k], k)}, Tail(order))
       IN [rows |-> rest.rows, keys |-> <<id>> \o rest.keys]

\* INSERT INTO reviews, one row per pending Review (session.add: batch 0).
RECURSIVE InsertReviews(_, _, _)
InsertReviews(rows, gameRows, order) ==
  IF order = <<>> THEN [rows |-> rows, keys |-> <<>>, failed |-> FALSE]
  ELSE LET k == Head(order)
           id == NextId(rows)
           row == ReviewRow(id, robj[k], k, Cardinality(rows) + 1, 0, 0, 0,
                            RefOf(robj[k].game_id, gameRows))
       IN IF FkViolation(robj[k].game_id, gameRows)
          THEN [rows |-> rows, keys |-> <<>>, failed |-> TRUE]
          ELSE LET rest == InsertReviews(rows \cup {row}, gameRows, Tail(order))
               IN [rows |-> rest.rows, keys |-> <<id>> \o rest.keys,
                   failed |-> rest.failed]

IndexOf(s, x) == CHOOSE i \in 1..Len(s) : s[i] = x

\* The key a flushed object is given: the key of the row inserted for it.
KeyOfLastInsert(keys, order, k) == keys[Len(keys)]

KeyOf(keys, order, k) == keys[IndexOf(order, k)]

\* Session.flush: the pending Games are inserted before the pending Reviews
\* (reviews.game_id depends on games), each class in session.add order, and
\* every inserted object becomes persistent with the key of its row.
Flushed ==
  LET gorder == InAddOrder(PendingGames, gobj)
      rorder == InAddOrder(PendingReviews, robj)
      G == InsertGames(games, gorder)
      R == InsertReviews(reviews, G.rows, rorder)
  IN [games |-> G.rows,
      reviews |-> R.rows,
      failed |-> R.failed,
      gobj |-> [k \in GameObjs |->
                  IF k \in PendingGames
                  THEN [gobj[k] EXCEPT !.st = "persistent", !.ord = 0,
                                       !.key = KeyOf(G.keys, gorder, k)]
                  ELSE gobj[k]],
      robj |-> [k \in ReviewObjs |->
                  IF k \in PendingReviews /\ IndexOf(rorder, k) <= Len(R.keys)
                  THEN [robj[k] EXCEPT !.st = "persistent", !.ord = 0,
                                       !.key = KeyOf(R.keys, rorder, k)]
                  ELSE robj[k]]]

\* expire_on_commit (the sessionmaker default): every persistent object of the
\* session loses its loaded attributes.
Expired(objs, members) ==
  [k \in GameObjs |->
     IF k \in members /\ objs[k].st = "persistent" THEN [objs[k] EXCEPT !.attrs = <<>>] ELSE objs[k]]

\* expire_on_commit for the loaded relationships: none stays loaded.
CachesKeptOnCommit(cache) == cache

CachesAfterCommit(cache) == <<>>

\* SELECT ... FROM reviews WHERE reviews.game_id = ? as the relationship of
\* Game.reviews issues it, with no ORDER BY: SQLite scans the table by rowid.
SelectReviewsNewestFirst(rows, gid) ==
  LET s == SortedSeq({r.id : r \in {x \in rows : x.game_id = gid}})
  IN [i \in 1..Len(s) |-> s[Len(s) + 1 - i]]

SelectReviewsUnfiltered(rows, gid) == SortedSeq({r.id : r \in rows})

SelectReviews(rows, gid) ==
  SortedSeq({r.id : r \in {x \in rows : x.game_id = gid}})

\* ------------------------------------------------------------ the operations
\* Reading a column attribute of an expired persistent Game reloads the
\* object's row by its identity key (a refresh does not autoflush).
Refreshed(k) ==
  IF gobj[k].st = "persistent" /\ gobj[k].attrs = <<>>
  THEN [gobj EXCEPT ![k].attrs = <<GameFields(RowById(games, gobj[k].key))>>]
  ELSE gobj

\* Game(game_title=..., game_platform=..., game_genre=..., game_price=...)
NewGameOp(k, f) ==
  /\ gobj' = [gobj EXCEPT ![k] = [st |-> "transient", key |-> None, ord |-> 0,
                                  ctor |-> f, attrs |-> <<f>>]]
  /\ UNCHANGED <<games, reviews, file, robj, collCache, gameCache, error, nbulk>>

\* Review(review_score=..., review_comment=..., game_id=<literal>)
NewReviewOp(k, f, gid) ==
  /\ robj' = [robj EXCEPT ![k] = [st |-> "transient", key |-> None, ord |-> 0,
                                  score |-> f.score, comment |-> f.comment,
                                  game_id |-> gid]]
  /\ UNCHANGED <<games, reviews, file, gobj, collCache, gameCache, error, nbulk>>

\* Review(review_score=..., review_comment=..., game_id=game.game_id): the
\* read of game.game_id gives None until the Game is flushed.
NewReviewForOp(k, f, j) ==
  /\ robj' = [robj EXCEPT ![k] = [st |-> "transient", key |-> None, ord |-> 0,
                                  score |-> f.score, comment |-> f.comment,
                                  game_id |-> gobj[j].key]]
  /\ gobj' = Refreshed(j)
  /\ UNCHANGED <<games, reviews, file, collCache, gameCache, error, nbulk>>

\* session.add(game)
AddGameOp(k) ==
  /\ gobj[k].st = "transient"
  /\ gobj' = [gobj EXCEPT ![k].st = "pending", ![k].ord = NextOrd]
  /\ UNCHANGED <<games, reviews, file, robj, collCache, gameCache, error, nbulk>>

\* session.add(review)
AddReviewOp(k) ==
  /\ robj[k].st = "transient"
  /\ robj' = [robj EXCEPT ![k].st = "pending", ![k].ord = NextOrd]
  /\ UNCHANGED <<games, reviews, file, gobj, collCache, gameCache, error, nbulk>>

\* The INSERTs of one bulk_save_objects call, in list order.
RECURSIVE InsertBulk(_, _, _, _)
InsertBulkFirstOnly(rows, batch, pos, b) ==
  IF pos > 1 THEN [rows |-> rows, failed |-> FALSE]
  ELSE LET k == batch[pos]
           row == ReviewRow(NextId(rows), robj[k], k, Cardinality(rows) + 1, b, pos,
                            Len(batch), RefOf(robj[k].game_id, games))
       IN InsertBulk(rows \cup {row}, batch, pos + 1, b)

InsertBulk(rows, batch, pos, b) ==
  IF pos > Len(batch) THEN [rows |-> rows, failed |-> FALSE]
  ELSE LET k == batch[pos]
           row == ReviewRow(NextId(rows), robj[k], k, Cardinality(rows) + 1, b, pos,
                            Len(batch), RefOf(robj[k].game_id, games))
       IN IF FkViolation(robj[k].game_id, games)
          THEN [rows |-> rows, failed |-> TRUE]
          ELSE InsertBulk(rows \cup {row}, batch, pos + 1, b)

\* session.bulk_save_objects([r1, r2, ...]): the rows are inserted at once, in
\* list order, without a flush of the pending objects; the objects are not
\* attached to the session and are not given the keys of their rows
\* (return_defaults is left False).  st "saved" marks an unattached object
\* whose row a bulk call has inserted; the program saves an object once.
BulkSaveOp(batch) ==
  LET B == InsertBulk(reviews, batch, 1, nbulk + 1)
  IN /\ \A i \in 1..Len(batch) : robj[batch[i]].st = "transient"
     /\ nbulk' = nbulk + 1
     /\ IF B.failed
        THEN /\ error' = "IntegrityError"
             /\ games' = file.games
             /\ reviews' = file.reviews
        ELSE /\ reviews' = B.rows
             /\ UNCHANGED <<games, error>>
     /\ robj' = [k \in ReviewObjs |->
                   IF k \in Range(batch) /\ ~B.failed
                   THEN [robj[k] EXCEPT !.st = "saved"] ELSE robj[k]]
     /\ UNCHANGED <<file, gobj, collCache, gameCache>>

\* session.commit(): flush, COMMIT, expire (members: the Game objects
\* attached to the committing session).
CommitOp(members) ==
  LET F == Flushed
  IN IF F.failed
     THEN /\ error' = "IntegrityError"
          /\ games' = file.games
          /\ reviews' = file.reviews
          /\ UNCHANGED <<file, gobj, robj, collCache, gameCache, nbulk>>
     ELSE /\ games' = F.games
          /\ reviews' = F.reviews
          /\ file' = [games |-> F.games, reviews |-> F.reviews]
          /\ gobj' = Expired(F.gobj, members)
          /\ robj' = F.robj
          /\ collCache' = CachesAfterCommit(collCache)
          /\ gameCache' = CachesAfterCommit(gameCache)
          /\ UNCHANGED <<error, nbulk>>

\* The Game instances of the session's identity map, by key.
GameInstances == {gobj[k].key : k \in {j \in GameObjs : gobj[j].st = "persistent"}}

\* The Review instances of the session's identity map, by key: the flushed
\* objects and the rows a collection load brought in.
ReviewInstances ==
  {robj[k].key : k \in {j \in ReviewObjs : robj[j].st = "persistent"}}
    \cup UNION {Range(collCache[g]) : g \in DOMAIN collCache}

\* What the lazy load of game.reviews returns for the Game with key g.
ReviewsLoad(g) == SelectReviews(Flushed.reviews, g)

\* What the lazy load of review.game returns for the Review with key r: None
\* for a NULL game_id, the identity map's Game when it holds that key, and
\* otherwise what SELECT ... FROM games WHERE games.game_id = ? finds after the
\* autoflush.
GameLoad(r) ==
  LET gid == RowById(Flushed.reviews, r).game_id
  IN IF gid = None \/ gid \in GameInstances THEN gid
     ELSE IF HasId(Flushed.games, gid) THEN gid ELSE None

\* The first read of game.reviews on a persistent Game: autoflush, then the
\* SELECT; the list stays loaded until the object is expired.
LoadReviewsOp(g) ==
  LET F == Flushed
  IN /\ g \in GameInstances
     /\ g \notin DOMAIN collCache
     /\ IF F.failed
        THEN /\ error' = "IntegrityError"
             /\ games' = file.games
             /\ reviews' = file.reviews
             /\ UNCHANGED <<gobj, robj, collCache>>
        ELSE /\ games' = F.games
             /\ reviews' = F.reviews
             /\ gobj' = F.gobj
             /\ robj' = F.robj
             /\ collCache' = collCache @@ (g :> ReviewsLoad(g))
             /\ UNCHANGED error
     /\ UNCHANGED <<file, gameCache, nbulk>>

\* The first read of review.game on a persistent Review; the reference stays
\* loaded until the object is expired.  Only a load that issues SQL flushes.
LoadGameOp(r) ==
  LET gid == RowById(reviews, r).game_id
      F == Flushed
  IN /\ r \in ReviewInstances
     /\ r \notin DOMAIN gameCache
     /\ IF gid = None \/ gid \in GameInstances
        THEN /\ gameCache' = gameCache @@ (r :> GameLoad(r))
             /\ UNCHANGED <<games, reviews, gobj, robj, error>>
        ELSE IF F.failed
        THEN /\ error' = "IntegrityError"
             /\ games' = file.games
             /\ reviews' = file.reviews
             /\ UNCHANGED <<gobj, robj, gameCache>>
        ELSE /\ games' = F.games
             /\ reviews' = F.reviews
             /\ gobj' = F.gobj
             /\ robj' = F.robj
             /\ gameCache' = gameCache @@ (r :> GameLoad(r))
             /\ UNCHANGED error
     /\ UNCHANGED <<file, collCache, nbulk>>

\* A read of a column attribute (hasattr(game, "game_title")) on an expired Game.
RefreshGameOp(k) ==
  /\ gobj[k].st = "persistent"
  /\ gobj[k].attrs = <<>>
  /\ gobj' = Refreshed(k)
  /\ UNCHANGED <<games, reviews, file, robj, collCache, gameCache, error, nbulk>>

\* ------------------------------------------- one session, any order of calls
Idle == [cls |-> "none", line |-> 0]

Init ==
  /\ games = {}
  /\ reviews = {}
  /\ file = [games |-> {}, reviews |-> {}]
  /\ gobj = [k \in GameObjs |-> AbsentGame]
  /\ robj = [k \in ReviewObjs |-> AbsentReview]
  /\ collCache = <<>>
  /\ gameCache = <<>>
  /\ error = "none"
  /\ nbulk = 0
  /\ calls = 0
  /\ pc = Idle
  /\ run = 0
  /\ latest = [TestGame |-> 0, TestReview |-> 0]

\* Names are bound in the order of the program text.
NextToBind(order, objs, k) ==
  \E i \in 1..Len(order) :
    /\ order[i] = k
    /\ objs[k].st = "absent"
    /\ \A j \in 1..(i - 1) : objs[order[j]].st # "absent"

\* The lists of distinct unattached Review objects.
Batches ==
  LET T == {k \in ReviewObjs : robj[k].st = "transient"}
  IN {s \in UNION {[1..n -> T] : n \in 1..Cardinality(T)} :
        \A i, j \in 1..Len(s) : i # j => s[i] # s[j]}

\* A call is made while no exception has left the session.
Ready == error = "none" /\ calls < MaxCalls

Called == calls' = calls + 1 /\ UNCHANGED <<pc, run, latest>>

NewGame ==
  \E k \in GameObjs :
    Ready /\ NextToBind(GameOrder, gobj, k) /\ NewGameOp(k, GameFixture(k)) /\ Called

NewReview ==
  \E k \in ReviewObjs :
    /\ Ready /\ NextToBind(ReviewOrder, robj, k)
    /\ NewReviewOp(k, ReviewFixture(k), UnknownGameId) /\ Called

NewReviewFor ==
  \E k \in ReviewObjs, j \in GameObjs :
    /\ Ready /\ NextToBind(ReviewOrder, robj, k) /\ gobj[j].st # "absent"
    /\ NewReviewForOp(k, ReviewFixture(k), j) /\ Called

AddGame ==
  \E k \in GameObjs : Ready /\ AddGameOp(k) /\ Called

AddReview ==
  \E k \in ReviewObjs : Ready /\ AddReviewOp(k) /\ Called

BulkSave ==
  \E batch \in Batches :
    Ready /\ BulkSaveOp(batch) /\ Called

Commit == Ready /\ CommitOp(GameObjs) /\ Called

LoadReviews ==
  \E g \in GameInstances : Ready /\ LoadReviewsOp(g) /\ Called

LoadGame ==
  \E r \in ReviewInstances : Ready /\ LoadGameOp(r) /\ Called

RefreshGame ==
  \E k \in GameObjs : Ready /\ RefreshGameOp(k) /\ Called

Next ==
  \/ NewGame
  \/ NewReview
  \/ NewReviewFor
  \/ AddGame
  \/ AddReview
  \/ BulkSave
  \/ Commit
  \/ LoadReviews
  \/ LoadGame
  \/ RefreshGame

Spec == Init /\ [][Next]_vars


\* ------------------------------------------------ the test classes' bodies
\* The body of TestGame or TestReview runs when its module is imported, from
\* its first statement to its last; bodies run one after another, in either
\* order and any number of times, on the file the earlier ones left.
At(c, l) == pc = [cls |-> c, line |-> l]

Goto(c, l) == pc' = [cls |-> c, line |-> l] /\ UNCHANGED <<calls, run, latest>>

\* game_test.py 10-12: a new engine and session; the class's names are unbound.
TestGameSession ==
  /\ pc = Idle /\ run < MaxSeedings /\ error = "none"
  /\ run' = run + 1
  /\ gobj' = [gobj EXCEPT !["mario_kart"] = AbsentGame]
  /\ robj' = [robj EXCEPT !["mk_review_1"] = AbsentReview, !["mk_review_2"] = AbsentReview]
  /\ pc' = [cls |-> "TestGame", line |-> 15]
  /\ UNCHANGED <<games, reviews, file, collCache, gameCache, error, nbulk, calls, latest>>

TestGameNewGame ==
  At("TestGame", 15) /\ NewGameOp("mario_kart", MarioKart) /\ Goto("TestGame", 22)

TestGameAdd ==
  At("TestGame", 22) /\ AddGameOp("mario_kart") /\ Goto("TestGame", 23)

TestGameCommit ==
  At("TestGame", 23) /\ CommitOp({"mario_kart"}) /\ Goto("TestGame", 25)

TestGameReview1 ==
  /\ At("TestGame", 25)
  /\ NewReviewForOp("mk_review_1", Wow, "mario_kart")
  /\ Goto("TestGame", 31)

TestGameReview2 ==
  /\ At("TestGame", 31)
  /\ NewReviewForOp("mk_review_2", Classic, "mario_kart")
  /\ Goto("TestGame", 37)

TestGameBulkSave ==
  /\ At("TestGame", 37)
  /\ BulkSaveOp(<<"mk_review_1", "mk_review_2">>)
  /\ Goto("TestGame", 38)

TestGameCommit2 ==
  /\ At("TestGame", 38)
  /\ CommitOp({"mario_kart"})
  /\ pc' = Idle
  /\ latest' = [latest EXCEPT !.TestGame = run]
  /\ UNCHANGED <<calls, run>>

\* review_test.py 10-12
TestReviewSession ==
  /\ pc = Idle /\ run < MaxSeedings /\ error = "none"
  /\ run' = run + 1
  /\ gobj' = [gobj EXCEPT !["skyrim"] = AbsentGame]
  /\ robj' = [robj EXCEPT !["skyrim_review"] = AbsentReview]
  /\ pc' = [cls |-> "TestReview", line |-> 15]
  /\ UNCHANGED <<games, reviews, file, collCache, gameCache, error, nbulk, calls, latest>>

TestReviewNewGame ==
  At("TestReview", 15) /\ NewGameOp("skyrim", Skyrim) /\ Goto("TestReview", 22)

TestReviewAdd ==
  At("TestReview", 22) /\ AddGameOp("skyrim") /\ Goto("TestReview", 23)

TestReviewCommit ==
  At("TestReview", 23) /\ CommitOp({"skyrim"}) /\ Goto("TestReview", 25)

TestReviewNewReview ==
  /\ At("TestReview", 25)
  /\ NewReviewForOp("skyrim_review", Wow, "skyrim")
  /\ Goto("TestReview", 31)

TestReviewAddReview ==
  At("TestReview", 31) /\ AddReviewOp("skyrim_review") /\ Goto("TestReview", 32)

TestReviewCommit2 ==
  /\ At("TestReview", 32)
  /\ CommitOp({"skyrim"})
  /\ pc' = Idle
  /\ latest' = [latest EXCEPT !.TestReview = run]
  /\ UNCHANGED <<calls, run>>

SeedNext ==
  \/ TestGameSession
  \/ TestGameNewGame
  \/ TestGameAdd
  \/ TestGameCommit
  \/ TestGameReview1
  \/ TestGameReview2
  \/ TestGameBulkSave
  \/ TestGameCommit2
  \/ TestReviewSession
  \/ TestReviewNewGame
  \/ TestReviewAdd
  \/ TestReviewCommit
  \/ TestReviewNewReview
  \/ TestReviewAddReview
  \/ TestReviewCommit2

SeedSpec == Init /\ [][SeedNext]_vars


\* ------------------------------------------------------------ what is read
\* game.reviews of the persistent Game with key g as a read returns it now:
\* the loaded list, or else what the load returns.
Reviews(g) == IF g \in DOMAIN collCache THEN collCache[g] ELSE ReviewsLoad(g)

\* review.game of the persistent Review with key r as a read returns it now,
\* as the key of the Game instance, None for no Game.
GameOf(r) == IF r \in DOMAIN gameCache THEN gameCache[r] ELSE GameLoad(r)

\* The column attributes of Game object k as a read returns them now.
FieldsOf(k) == Refreshed(k)[k].attrs[1]

\* Nothing is flushed or pending beyond what the file holds.
Quiescent ==
  /\ games = file.games
  /\ reviews = file.reviews
  /\ PendingGames = {}
  /\ PendingReviews = {}

\* The reviews rows a read sees: those inserted and, by the read's autoflush,
\* those of the pending objects.
Visible == Flushed.reviews

OwnReviews(rows, g) == {r \in rows : r.game_id = g.id}

\* ---------------------------------------------------------------- claims

\* C1: for every committed Review row r and committed Game row g with
\* r.game_id = g.id, r is in g.reviews and r.game is g; and r.game is g only
\* when r.game_id = g.id.
C1_BidirectionalAgreement ==
  \A r \in file.reviews, g \in file.games :
    /\ r.game_id = g.id => r.id \in Range(Reviews(g.id)) /\ GameOf(r.id) = g.id
    /\ GameOf(r.id) = g.id => r.game_id = g.id

\* C1 witness: a committed review of a committed game, with both sides of the
\* relationship loaded after the commit.
C1_Witness ==
  \E r \in file.reviews, g \in file.games :
    /\ r.game_id = g.id
    /\ g.id \in DOMAIN collCache /\ r.id \in Range(collCache[g.id])
    /\ r.id \in DOMAIN gameCache /\ gameCache[r.id] = g.id

\* C2: g.reviews of a committed Game holds only rows whose game_id is g's key
\* (none of another game, none with game_id unset), holds every committed row
\* of g, holds none twice, and with nothing uncommitted holds exactly the
\* committed rows of g.
C2_ReviewsExactlyOwn ==
  \A g \in file.games :
    LET coll == Reviews(g.id)
    IN /\ \A i \in 1..Len(coll) :
            HasId(Visible, coll[i]) /\ RowById(Visible, coll[i]).game_id = g.id
       /\ \A r \in OwnReviews(file.reviews, g) : r.id \in Range(coll)
       /\ \A i, j \in 1..Len(coll) : coll[i] = coll[j] => i = j
       /\ Quiescent => Range(coll) = {r.id : r \in OwnReviews(file.reviews, g)}

\* C2 witness: a loaded collection with a review in it, while the file also
\* holds a review of another game and a review with no game_id.
C2_Witness ==
  \E g \in file.games :
    /\ g.id \in DOMAIN collCache /\ collCache[g.id] # <<>>
    /\ \E r \in file.reviews : r.game_id # g.id /\ r.game_id # None
    /\ \E r \in file.reviews : r.game_id = None

\* C3: when the committed rows of one bulk_save_objects call all carry the key
\* of a committed Game and that Game has no other review row, game.reviews has
\* the length of the call's list.
C3_BatchLength ==
  \A g \in file.games, b \in 1..nbulk :
    LET B == {r \in file.reviews : r.batch = b}
    IN (/\ B # {}
        /\ \A r \in B : r.game_id = g.id
        /\ \A r \in OwnReviews(Visible, g) : r.batch = b)
       => \A r \in B : Len(Reviews(g.id)) = r.blen

\* C3 witness: a committed batch of two for a Game committed before the call,
\* and the loaded collection of length 2.
C3_Witness ==
  \E g \in file.games, b \in 1..nbulk :
    LET B == {r \in file.reviews : r.batch = b}
    IN /\ Cardinality(B) = 2
       /\ \A r \in B : r.game_id = g.id /\ r.ref = "committed" /\ r.blen = 2
       /\ OwnReviews(reviews, g) = B
       /\ g.id \in DOMAIN collCache /\ Len(collCache[g.id]) = 2

\* C4: game.reviews lists the rows in the order of their INSERTs, and the rows
\* of one bulk_save_objects call in the order of the call's list.
C4_InsertionOrder ==
  \A g \in file.games :
    LET coll == Reviews(g.id)
    IN \A i, j \in 1..Len(coll) :
         i < j =>
           LET ri == RowById(Visible, coll[i])
               rj == RowById(Visible, coll[j])
           IN /\ ri.seq < rj.seq
              /\ (ri.batch # 0 /\ ri.batch = rj.batch) => ri.pos < rj.pos

\* C4 witness: the loaded collection of a Game whose two reviews came from one
\* call with the list [mk_review_2, mk_review_1]: score 8 is listed before 10.
C4_Witness ==
  \E g \in file.games :
    /\ g.id \in DOMAIN collCache
    /\ Len(collCache[g.id]) = 2
    /\ LET r1 == RowById(Visible, collCache[g.id][1])
           r2 == RowById(Visible, collCache[g.id][2])
       IN /\ r1 \in file.reviews /\ r2 \in file.reviews
          /\ r1.batch # 0 /\ r1.batch = r2.batch
          /\ r1.pos = 1 /\ r2.pos = 2
          /\ r1.obj = "mk_review_2" /\ r2.obj = "mk_review_1"
          /\ r1.score = 8 /\ r2.score = 10

\* C5: every committed Game object reads back the field values it was
\* constructed with, in every later state.
C5_FieldsReadBack ==
  \A k \in GameObjs :
    (gobj[k].st = "persistent" /\ HasId(file.games, gobj[k].key))
      => FieldsOf(k) = gobj[k].ctor

\* C5 witness: both Games committed, one expired (read from its row) and the
\* other refreshed, with a review committed after them.
C5_Witness ==
  /\ \A k \in GameObjs : gobj[k].st = "persistent" /\ HasId(file.games, gobj[k].key)
  /\ gobj["mario_kart"].attrs = <<>>
  /\ gobj["skyrim"].attrs # <<>>
  /\ file.reviews # {}

\* Whether a committed row was written for object k.
StoredGame(k) == \E row \in file.games : row.obj = k

StoredReview(k) == \E row \in file.reviews : row.obj = k

\* C6 as stated: an object has no key until its row is committed, and has its
\* key once the commit that stores it is done.
C6_KeyOnceStored ==
  /\ \A k \in GameObjs : gobj[k].key # None => HasId(file.games, gobj[k].key)
  /\ \A k \in ReviewObjs : robj[k].key # None => HasId(file.reviews, robj[k].key)
  /\ \A k \in GameObjs : StoredGame(k) => gobj[k].key # None
  /\ \A k \in ReviewObjs : StoredReview(k) => robj[k].key # None

\* C6 amended: an object given to session.add has no key until the flush that
\* inserts its row and from then on has that row's key, so after the commit the
\* key is the stored row's; an object given to bulk_save_objects never has one.
C6_KeyFromFlush ==
  /\ \A k \in GameObjs :
       /\ gobj[k].key # None <=> gobj[k].st = "persistent"
       /\ gobj[k].key # None =>
            \E row \in games : row.id = gobj[k].key /\ row.obj = k
       /\ \A row \in file.games : row.obj = k => gobj[k].key = row.id
  /\ \A k \in ReviewObjs :
       /\ robj[k].key # None <=> robj[k].st = "persistent"
       /\ robj[k].key # None =>
            \E row \in reviews : row.id = robj[k].key /\ row.obj = k /\ row.batch = 0
       /\ \A row \in file.reviews :
            row.obj = k => IF row.batch = 0 THEN robj[k].key = row.id
                           ELSE robj[k].key = None

\* C6 witness: a committed Game with its key, a review constructed with that
\* key and committed through session.add with a key of its own, and a stored
\* bulk-saved review without one.
C6_Witness ==
  \E k \in GameObjs, a, b \in ReviewObjs :
    /\ StoredGame(k) /\ gobj[k].key # None
    /\ StoredReview(a) /\ robj[a].key # None /\ robj[a].game_id = gobj[k].key
    /\ StoredReview(b) /\ robj[b].st = "saved" /\ robj[b].key = None

\* C7 as stated: every committed review's game_id is the key of a committed game.
C7_ReferentialIntegrity ==
  \A r \in file.reviews : \E g \in file.games : g.id = r.game_id

\* C8 as stated: a review whose game_id matched no game row when it was inserted
\* is not stored (the insert ended in an error instead).
C8_FkViolationRejected ==
  \A r \in reviews : r.ref # "dangling"

\* C9 as stated: every committed review is in the reviews collection of exactly
\* one committed game.
C9_ExactlyOneGame ==
  \A r \in file.reviews :
    Cardinality({g \in file.games : r.id \in Range(Reviews(g.id))}) = 1

\* C10: keys are unique within a table and a committed row keeps its key, and
\* between class bodies the Game of the latest TestGame body has exactly the two
\* reviews of that body, in list order, and the Review of the latest TestReview
\* body resolves to the Game of that body.
UniqueKeys(rows) == \A a, b \in rows : a.id = b.id => a = b

C10_SeedingsIsolated ==
  /\ UniqueKeys(file.games) /\ UniqueKeys(file.reviews)
  /\ (pc = Idle /\ latest.TestGame > 0) =>
       LET g == gobj["mario_kart"].key
           coll == Reviews(g)
       IN /\ g # None /\ HasId(file.games, g)
          /\ RowById(file.games, g).run = latest.TestGame
          /\ Len(coll) = 2
          /\ \A i \in 1..Len(coll) :
               LET row == RowById(file.reviews, coll[i])
               IN row.run = latest.TestGame /\ row.pos = i
          /\ RowById(file.reviews, coll[1]).score = 10
          /\ RowById(file.reviews, coll[2]).score = 8
  /\ (pc = Idle /\ latest.TestReview > 0) =>
       LET r == robj["skyrim_review"].key
           g == gobj["skyrim"].key
       IN /\ r # None /\ g # None
          /\ GameOf(r) = g
          /\ RowById(file.reviews, r).run = latest.TestReview
          /\ RowById(file.games, g).run = latest.TestReview
          /\ FieldsOf("skyrim") = Skyrim

\* C10 witness: TestGame, TestReview, TestGame and TestReview again have run
\* on one file.
C10_Witness ==
  /\ pc = Idle
  /\ latest.TestGame = 3 /\ latest.TestReview = 4
  /\ Cardinality(file.games) = 4
  /\ Cardinality(file.reviews) = 6

====
